---------------------------- MODULE Spec2Model ----------------------------
(***************************************************************************)
(* A model of the portfolio optimizer and rebalancing simulator of         *)
(* src/portfolio_optimization.py and of the metric functions of            *)
(* src/portfolio_utils.py.                                                 *)
(*                                                                         *)
(* Numbers.  A float is modelled by an exact fraction [n |-> numerator,    *)
(* d |-> denominator] in lowest terms with d > 0; the three IEEE specials  *)
(* numpy produces instead of raising are the fractions with d = 0:         *)
(* 1/0 is +inf, -1/0 is -inf and 0/0 is NaN.  Rounding is not modelled:    *)
(* every statement below is a statement about the exact values.            *)
(***************************************************************************)
EXTENDS Integers, Sequences, FiniteSets, TLC

VARIABLES
    \* simulate_rebalancing
    index, freq, target_weights, returns, period, values, weights_df,
    turnovers,
    \* the three optimizers
    opt_call, opt_ret, opt_printed, opt_solves,
    \* generate_random_portfolios and numpy's process-wide generator
    np_random, mc_event, mc_cur, mc_ref,
    \* max_drawdown
    md_values, md_result, md_pc

simVars == <<index, freq, target_weights, returns, period, values,
             weights_df, turnovers>>
optVars == <<opt_call, opt_ret, opt_printed, opt_solves>>
mcVars  == <<np_random, mc_event, mc_cur, mc_ref>>
mdVars  == <<md_values, md_result, md_pc>>

vars == <<simVars, optVars, mcVars, mdVars>>

\* A call of one component leaves the others as they are.
SimOnly == UNCHANGED <<optVars, mcVars, mdVars>>
OptOnly == UNCHANGED <<simVars, mcVars, mdVars>>
McOnly  == UNCHANGED <<simVars, optVars, mdVars>>
MdOnly  == UNCHANGED <<simVars, optVars, mcVars>>

---------------------------------------------------------------------------
(* Float arithmetic *)

Abs(i) == IF i < 0 THEN -i ELSE i

Sign(i) == IF i < 0 THEN -1 ELSE IF i > 0 THEN 1 ELSE 0

RECURSIVE GCD(_, _)
GCD(a, b) == IF b = 0 THEN a ELSE GCD(b, a % b)

\* The float n/d, in lowest terms; d = 0 gives +inf, -inf or NaN.
F(n, d) ==
    IF d = 0 THEN [n |-> Sign(n), d |-> 0]
    ELSE LET g == GCD(Abs(n), Abs(d))
         IN  [n |-> Sign(d) * (n \div g), d |-> Abs(d) \div g]

Zero == F(0, 1)
One  == F(1, 1)
Half == F(1, 2)
NaN  == F(0, 0)

IsNaN(a)    == a.d = 0 /\ a.n = 0
IsFinite(a) == a.d > 0

FNeg(a) == [n |-> -a.n, d |-> a.d]

FAdd(a, b) ==
    IF IsNaN(a) \/ IsNaN(b) THEN NaN
    ELSE IF a.d = 0 /\ b.d = 0 THEN (IF a.n = b.n THEN a ELSE NaN)
    ELSE IF a.d = 0 THEN a
    ELSE IF b.d = 0 THEN b
    ELSE F(a.n * b.d + b.n * a.d, a.d * b.d)

FSub(a, b) == FAdd(a, FNeg(b))

FMul(a, b) ==
    IF IsNaN(a) \/ IsNaN(b) THEN NaN
    ELSE IF a.d = 0 \/ b.d = 0 THEN F(Sign(a.n) * Sign(b.n), 0)
    ELSE F(a.n * b.n, a.d * b.d)

FDiv(a, b) ==
    IF IsNaN(a) \/ IsNaN(b) THEN NaN
    ELSE IF a.d = 0 /\ b.d = 0 THEN NaN
    ELSE IF a.d = 0 THEN F(Sign(a.n) * (IF b.n < 0 THEN -1 ELSE 1), 0)
    ELSE IF b.d = 0 THEN Zero
    ELSE F(a.n * b.d, a.d * b.n)

FAbs(a) == [n |-> Abs(a.n), d |-> a.d]

\* a <= b; false when either side is NaN, as every float comparison is.
FLeq(a, b) ==
    IF IsNaN(a) \/ IsNaN(b) THEN FALSE
    ELSE IF a.d = 0 /\ b.d = 0 THEN a.n <= b.n
    ELSE IF a.d = 0 THEN a.n < 0
    ELSE IF b.d = 0 THEN b.n > 0
    ELSE a.n * b.d <= b.n * a.d

FLt(a, b) == FLeq(a, b) /\ a # b

\* ndarray.sum() of a vector indexed by the set S.
RECURSIVE SumOver(_, _)
SumOver(v, S) ==
    IF S = {} THEN Zero
    ELSE LET a == CHOOSE x \in S : TRUE
         IN  FAdd(v[a], SumOver(v, S \ {a}))

VSum(v) == SumOver(v, DOMAIN v)

\* Elementwise vector operations.
VScale(c, v) == [a \in DOMAIN v |-> FMul(c, v[a])]
VMul(v, w)   == [a \in DOMAIN v |-> FMul(v[a], w[a])]
VDivS(v, c)  == [a \in DOMAIN v |-> FDiv(v[a], c)]
VOnePlus(r)  == [a \in DOMAIN r |-> FAdd(One, r[a])]

Min(S) == CHOOSE x \in S : \A y \in S : x <= y
Max(S) == CHOOSE x \in S : \A y \in S : y <= x

---------------------------------------------------------------------------
(* simulate_rebalancing and weights_over_time_buy_and_hold *)

\* The days of the calendar are 1..MaxDay; the index of the returns matrix
\* is a non-empty set of them (chronological, no date twice).
MaxDay == 3

\* The columns of the returns matrix.
Assets == {"A", "B"}

\* The daily returns a row is drawn from: -100%, 0 and +100%.
Rets == {F(-1, 1), F(0, 1), F(1, 1)}

Rows == [Assets -> Rets]

\* A rebalance frequency is the length of a period in days: period p holds
\* the days p*f+1 .. (p+1)*f.
Freqs == {1, 2}

\* The target_weights dictionaries of the callers: two that sum to 1, one
\* that leaves an asset out, one that names an asset the returns do not
\* have (so the weights of the matrix's assets sum to 1/2), one that is
\* short an asset.
TargetDicts ==
    { ("A" :> F(1, 2) @@ "B" :> F(1, 2)),
      ("A" :> F(1, 4) @@ "B" :> F(3, 4)),
      ("A" :> F(1, 1)),
      ("A" :> F(1, 2) @@ "C" :> F(1, 2)),
      ("A" :> F(3, 2) @@ "B" :> F(-1, 2)) }

\* target = np.array([target_weights.get(a, 0.0) for a in assets])
TargetOf(tw) ==
    [a \in Assets |-> IF a \in DOMAIN tw THEN tw[a] ELSE Zero]

target == TargetOf(target_weights)

\* pd.Grouper(freq=freq): the period a date falls in, and the periods the
\* groupby yields, from the first date's to the last date's, empty or not.
PeriodOf(d, f) == (d - 1) \div f

Group(p) == {d \in index : PeriodOf(d, freq) = p}

FirstPeriod == PeriodOf(Min(index), freq)
LastPeriod  == PeriodOf(Max(index), freq)

\* The dates of the group being iterated that iterrows has not yielded yet.
Unread(p) == Group(p) \ DOMAIN returns

\* Faulty variant, used to show the property below is sensitive to it: the "1 +" forgotten.
GrowNoOne(v, row) == VMul(v, row)

\* values = values * (1 + row.values)
Grow(v, row) == VMul(v, VOnePlus(row))

\* Faulty variant, used to show the property below is sensitive to it: the values recorded as they are, not divided by their sum.
NotNormalized(v) == v

\* values / values.sum()
Normalized(v) == VDivS(v, VSum(v))

\* Faulty variant, used to show the property below is sensitive to it: the sum of the absolute differences, not halved.
TurnoverNotHalved(tgt, pre_weights) ==
    VSum([a \in DOMAIN tgt |-> FAbs(FSub(tgt[a], pre_weights[a]))])

\* turnover = 0.5 * np.abs(target - pre_weights).sum()
Turnover(tgt, pre_weights) ==
    FMul(Half, VSum([a \in DOMAIN tgt |-> FAbs(FSub(tgt[a], pre_weights[a]))]))

\* Faulty variant, used to show the property below is sensitive to it: the rebalance forgets the value the portfolio has reached.
RebalancedToTarget(v, tgt) == tgt

\* values = values.sum() * target
Rebalanced(v, tgt) == VScale(VSum(v), tgt)

\* The running products of a column of factors: Series.cumprod() over the
\* dates D of the frame rets, read at date d.
RECURSIVE CumProdAt(_, _, _)
CumProdAt(rets, a, d) ==
    LET earlier == {e \in DOMAIN rets : e < d}
        here    == FAdd(One, rets[d][a])
    IN  IF earlier = {} THEN here
        ELSE FMul(CumProdAt(rets, a, Max(earlier)), here)

\* Faulty variant, used to show the property below is sensitive to it: a running sum where the running product belongs.
RECURSIVE CumSumAt(_, _, _)
CumSumAt(rets, a, d) ==
    LET earlier == {e \in DOMAIN rets : e < d}
        here    == FAdd(One, rets[d][a])
    IN  IF earlier = {} THEN here
        ELSE FAdd(CumSumAt(rets, a, Max(earlier)), here)

\* cum = (1 + returns).cumprod()
CumProd(rets, a, d) == CumProdAt(rets, a, d)

\* weights_over_time_buy_and_hold(rets, init_weights): one row per date.
weights_over_time_buy_and_hold(rets, init_weights) ==
    LET w0     == TargetOf(init_weights)
        vals   == [d \in DOMAIN rets |-> [a \in Assets |-> FMul(CumProd(rets, a, d), w0[a])]]
    IN  [d \in DOMAIN rets |-> VDivS(vals[d], VSum(vals[d]))]

NaNRow == [a \in Assets |-> NaN]

SimInit ==
    /\ index \in (SUBSET (1..MaxDay)) \ {{}}
    /\ freq \in Freqs
    /\ target_weights \in TargetDicts
    /\ returns = << >>
    /\ period = FirstPeriod
    /\ values = target
    /\ weights_df = [d \in index |-> NaNRow]
    /\ turnovers = << >>

\* if group.empty: continue
GroupEmpty ==
    /\ period <= LastPeriod
    /\ Group(period) = {}
    /\ period' = period + 1
    /\ UNCHANGED <<index, freq, target_weights, returns, values, weights_df,
                   turnovers>>
    /\ SimOnly

\* One turn of the inner loop: the next date of the group and its row.
IterRow(row) ==
    /\ period <= LastPeriod
    /\ Unread(period) # {}
    /\ LET date == Min(Unread(period))
           v    == Grow(values, row)
       IN  /\ returns' = (date :> row) @@ returns
           /\ values' = v
           /\ weights_df' = [weights_df EXCEPT ![date] = Normalized(v)]
    /\ UNCHANGED <<index, freq, target_weights, period, turnovers>>
    /\ SimOnly

\* The end of a non-empty group: the turnover, then the rebalance.
Rebalance ==
    /\ period <= LastPeriod
    /\ Group(period) # {}
    /\ Unread(period) = {}
    /\ LET end_date    == Max(Group(period))
           pre_weights == weights_df[end_date]
       IN  /\ turnovers' = (end_date :> Turnover(target, pre_weights)) @@ turnovers
           /\ values' = Rebalanced(values, target)
    /\ period' = period + 1
    /\ UNCHANGED <<index, freq, target_weights, returns, weights_df>>
    /\ SimOnly

\* The loop is over and the function returns weights_df and
\* pd.Series(turnovers) as they stand.
SimDone == period > LastPeriod

SimNext ==
    \/ GroupEmpty
    \/ \E row \in Rows : IterRow(row)
    \/ Rebalance

---------------------------------------------------------------------------
(* Claims about simulate_rebalancing *)

\* The periods whose group the loop has finished, and among them those that
\* hold a date.
DonePeriods == {p \in FirstPeriod..LastPeriod : p < period}
NonEmptyDone == {p \in DonePeriods : Group(p) # {}}

AbsDiff(x, y) == IF FLeq(y, x) THEN FSub(x, y) ELSE FSub(y, x)

\* 0.5 times the sum over the assets of |t[a] - w[a]|, written out.
HalfSumAbsDiff(t, w) ==
    LET diffs == [a \in Assets |-> AbsDiff(t[a], w[a])]
    IN  FDiv(SumOver(diffs, Assets), F(2, 1))

\* C1: there is exactly one turnover entry per non-empty period the loop
\* has finished and none for an empty one; the entry is keyed by the last
\* date of its period and is 0.5 * sum |target - w|, w being the weight row
\* recorded for that date (before the rebalance reset the values).
C1_TurnoverPerPeriod ==
    /\ DOMAIN turnovers = {Max(Group(p)) : p \in NonEmptyDone}
    /\ Cardinality(DOMAIN turnovers) = Cardinality(NonEmptyDone)
    /\ \A d \in DOMAIN turnovers :
          turnovers[d] = HalfSumAbsDiff(TargetOf(target_weights), weights_df[d])

\* C1 witness: a finished run that skipped an empty period, recorded two
\* turnovers and traded at one of them.
C1_Witness ==
    /\ SimDone
    /\ \E p \in DonePeriods : Group(p) = {}
    /\ Cardinality(DOMAIN turnovers) = 2
    /\ \E d \in DOMAIN turnovers : FLt(Zero, turnovers[d])

\* A step that reads the row of date d multiplies each value by 1 + return.
C2Multiply ==
    \E d \in index :
        /\ d \notin DOMAIN returns
        /\ DOMAIN returns' = DOMAIN returns \cup {d}
        /\ values' = [a \in Assets |-> FMul(values[a], FAdd(One, returns'[d][a]))]

\* A step that records a turnover comes right after the last date of a
\* non-empty period, every date of which has been read, and resets the
\* values to (their sum) x target.
C2Reset ==
    /\ DOMAIN returns # {}
    /\ LET last == Max(DOMAIN returns)
           grp  == Group(PeriodOf(last, freq))
           tgt  == TargetOf(target_weights)
           tot  == SumOver(values, Assets)
       IN  /\ last = Max(grp)
           /\ grp \subseteq DOMAIN returns
           /\ DOMAIN turnovers' = DOMAIN turnovers \cup {last}
           /\ last \notin DOMAIN turnovers
           /\ values' = [a \in Assets |-> FMul(tot, tgt[a])]
           /\ SumOver(tgt, Assets) = One => SumOver(values', Assets) = tot

C2Step ==
    /\ returns' # returns => C2Multiply
    /\ turnovers' # turnovers => C2Reset
    /\ (returns' = returns /\ turnovers' = turnovers) => values' = values

\* C2: the value vector starts as the target weights; a step changes it
\* only by multiplying each value by (1 + the return of the date read), or,
\* right after the last date of a non-empty period, by resetting it to
\* (sum of the values) x target, which keeps the total when the target
\* sums to 1; nothing else changes it, so no rebalance falls inside a
\* period.
C2_ValueVector ==
    /\ values = TargetOf(target_weights)
    /\ [][C2Step]_vars

\* C2 witness: two rebalances done, with a portfolio value other than 1
\* carried through them by a target that sums to 1.
C2_Witness ==
    /\ Cardinality(DOMAIN turnovers) = 2
    /\ SumOver(TargetOf(target_weights), Assets) = One
    /\ SumOver(values, Assets) # One
    /\ IsFinite(SumOver(values, Assets))

AllReturnsZero == \A d \in DOMAIN returns : \A a \in Assets : returns[d][a] = Zero

\* C4, as claimed: when every daily return is 0, every recorded turnover
\* is 0 and every recorded weight row is the target, for any frequency and
\* any target weight vector.
C4_ZeroReturnsAnyTarget ==
    AllReturnsZero =>
        /\ \A d \in DOMAIN turnovers : turnovers[d] = Zero
        /\ \A d \in DOMAIN returns : weights_df[d] = TargetOf(target_weights)

\* C4, amended: when every daily return is 0 and the target weights of the
\* matrix's assets sum to 1, every recorded turnover is 0 and every
\* recorded weight row is the target, for any frequency.
C4_ZeroReturnsUnitTarget ==
    (AllReturnsZero /\ SumOver(TargetOf(target_weights), Assets) = One) =>
        /\ \A d \in DOMAIN turnovers : turnovers[d] = Zero
        /\ \A d \in DOMAIN returns : weights_df[d] = TargetOf(target_weights)

\* C4 witness: a finished run over three dates of zero returns with a
\* target that sums to 1 and two period boundaries.
C4_Witness ==
    /\ SimDone
    /\ AllReturnsZero
    /\ Cardinality(DOMAIN returns) = 3
    /\ SumOver(TargetOf(target_weights), Assets) = One
    /\ Cardinality(DOMAIN turnovers) = 2

C8Pre ==
    /\ \A d \in DOMAIN returns : \A a \in Assets : FLt(F(-1, 1), returns[d][a])
    /\ \A a \in Assets : FLeq(Zero, TargetOf(target_weights)[a])
    /\ SumOver(TargetOf(target_weights), Assets) = One

\* C8: when every daily return is above -1 and the target weights are
\* non-negative and sum to 1, every recorded turnover lies in [0, 1].
C8_TurnoverInUnitInterval ==
    C8Pre => \A d \in DOMAIN turnovers :
                FLeq(Zero, turnovers[d]) /\ FLeq(turnovers[d], One)

\* C8 witness: under the precondition, a finished run that traded at two
\* boundaries.
C8_Witness ==
    /\ SimDone
    /\ C8Pre
    /\ Cardinality(DOMAIN turnovers) = 2
    /\ \A d \in DOMAIN turnovers : FLt(Zero, turnovers[d])

FirstPeriodDates == {d \in DOMAIN returns : PeriodOf(d, freq) = FirstPeriod}

\* C10: on every date of the first period the weight row of
\* simulate_rebalancing is the row weights_over_time_buy_and_hold gives
\* for the same returns and weights (rows of NaN compare equal).
C10_FirstPeriodIsBuyAndHold ==
    \A d \in FirstPeriodDates :
        weights_df[d] = weights_over_time_buy_and_hold(returns, target_weights)[d]

\* C10 witness: a finished run whose first period holds two dates with
\* drifted, finite weights, and whose later date differs from buy-and-hold.
C10_Witness ==
    /\ SimDone
    /\ Cardinality(FirstPeriodDates) = 2
    /\ \A d \in FirstPeriodDates :
          /\ \A a \in Assets : IsFinite(weights_df[d][a])
          /\ weights_df[d] # TargetOf(target_weights)
    /\ \E d \in DOMAIN returns \ FirstPeriodDates :
          weights_df[d] # weights_over_time_buy_and_hold(returns, target_weights)[d]

---------------------------------------------------------------------------
(* The three optimizers *)

\* The (min_weight, max_weight) pairs of the callers: the defaults, a cap
\* of 1/4 per asset (under which no two weights can sum to 1), and short
\* sales down to -1/4 with leverage up to 5/4.
BoundPairs ==
    { [min_weight |-> F(0, 1),  max_weight |-> F(1, 1)],
      [min_weight |-> F(0, 1),  max_weight |-> F(1, 4)],
      [min_weight |-> F(-1, 4), max_weight |-> F(5, 4)] }

\* The weights an iterate is drawn from: the quarters from -1/4 to 5/4.
Quarters == {F(k, 4) : k \in -1..5}

SuccessMessage == "Optimization terminated successfully"

FailureMessages ==
    {"Iteration limit reached", "Positive directional derivative for linesearch"}

\* scipy.optimize.minimize(..., method='SLSQP', bounds=bounds, constraints=cons):
\* the results it can hand back.  The iterate lies in the box; a result
\* that reports success satisfies the equality constraint sum(w) = 1; one
\* that reports failure carries any iterate of the box and the reason.
minimize(bounds) ==
    LET box == {x \in [Assets -> Quarters] :
                   \A a \in Assets : /\ FLeq(bounds.min_weight, x[a])
                                     /\ FLeq(x[a], bounds.max_weight)}
    IN  {[x |-> x, success |-> TRUE, message |-> SuccessMessage] :
            x \in {y \in box : VSum(y) = One}}
        \cup
        {[x |-> x, success |-> FALSE, message |-> m] :
            x \in box, m \in FailureMessages}

\* np.clip(x, 0, 1)
Clip01(x) ==
    [a \in DOMAIN x |->
        IF FLt(x[a], Zero) THEN Zero ELSE IF FLt(One, x[a]) THEN One ELSE x[a]]

\* Faulty variant, used to show the property below is sensitive to it: the clean-up applied only to a result that reports success.
w_opt_OnlyOnSuccess(res) ==
    IF res.success THEN VDivS(Clip01(res.x), VSum(Clip01(res.x))) ELSE res.x

\* w_opt = np.clip(res.x, 0, 1); w_opt = w_opt / w_opt.sum()
w_opt(res) == VDivS(Clip01(res.x), VSum(Clip01(res.x)))

\* opt_weights = {assets[i]: float(result.x[i]) for i in range(n)}
opt_weights(res) == res.x

\* if not res.success: print('Optimization failed:', res.message)
PrintFailed(res) ==
    IF ~res.success
    THEN <<[text |-> "Optimization failed:", message |-> res.message]>>
    ELSE << >>

\* if not result.success: print(f"Optimization warning: {result.message}")
PrintWarning(res) ==
    IF ~res.success
    THEN <<[text |-> "Optimization warning:", message |-> res.message]>>
    ELSE << >>

NoCall == [op |-> "none"]

\* What a call of each optimizer does with the result minimize handed
\* back: the lines it prints and the weights it returns.
target_return_outcome(res) == [printed |-> PrintFailed(res), ret |-> w_opt(res)]
max_vol_outcome(res)       == [printed |-> PrintFailed(res), ret |-> w_opt(res)]
sharpe_outcome(res)        == [printed |-> PrintWarning(res), ret |-> opt_weights(res)]

OptInit ==
    /\ opt_call = NoCall
    /\ opt_ret = << >>
    /\ opt_printed = << >>
    /\ opt_solves = 0

\* One call of an optimizer: a single minimize, the result it handed back,
\* what was printed and what is returned.
recommend_weights_for_target_return(bounds, res) ==
    /\ opt_call' = [op |-> "recommend_weights_for_target_return",
                    bounds |-> bounds, res |-> res]
    /\ opt_solves' = 1
    /\ opt_printed' = target_return_outcome(res).printed
    /\ opt_ret' = target_return_outcome(res).ret
    /\ OptOnly

recommend_weights_for_max_vol(bounds, res) ==
    /\ opt_call' = [op |-> "recommend_weights_for_max_vol",
                    bounds |-> bounds, res |-> res]
    /\ opt_solves' = 1
    /\ opt_printed' = max_vol_outcome(res).printed
    /\ opt_ret' = max_vol_outcome(res).ret
    /\ OptOnly

optimize_portfolio_sharpe(bounds, res) ==
    /\ opt_call' = [op |-> "optimize_portfolio_sharpe",
                    bounds |-> bounds, res |-> res]
    /\ opt_solves' = 1
    /\ opt_printed' = sharpe_outcome(res).printed
    /\ opt_ret' = sharpe_outcome(res).ret
    /\ OptOnly

OptNext ==
    \E bounds \in BoundPairs : \E res \in minimize(bounds) :
        \/ optimize_portfolio_sharpe(bounds, res)
        \/ recommend_weights_for_target_return(bounds, res)
        \/ recommend_weights_for_max_vol(bounds, res)

---------------------------------------------------------------------------
(* Claims about the optimizers *)

ClippedSpec(x) ==
    [a \in Assets |-> IF FLeq(x[a], Zero) THEN Zero
                      ELSE IF FLeq(One, x[a]) THEN One ELSE x[a]]

\* C3, as claimed: whatever the solver hands back, each of the three
\* optimizers returns the iterate clipped to [0,1] and divided by its sum,
\* a vector that sums to 1.
C3_ReturnedWeightsSumToOne ==
    opt_call.op # "none" =>
        /\ opt_ret = [a \in Assets |->
                        FDiv(ClippedSpec(opt_call.res.x)[a],
                             SumOver(ClippedSpec(opt_call.res.x), Assets))]
        /\ SumOver(opt_ret, Assets) = One

\* What the optimizer op returns when the solver hands back the iterate x
\* and reports success.
ReturnedOnSuccess(op, x) ==
    LET res == [x |-> x, success |-> TRUE, message |-> SuccessMessage]
    IN  CASE op = "recommend_weights_for_target_return" -> target_return_outcome(res).ret
          [] op = "recommend_weights_for_max_vol"       -> max_vol_outcome(res).ret
          [] op = "optimize_portfolio_sharpe"           -> sharpe_outcome(res).ret

\* C7: a call whose solver reported failure ran the solver once, printed
\* one line, which carries the solver's message, and returned a weight for
\* every asset: the vector the same optimizer returns when the solver hands
\* back the same iterate and reports success.
C7_FailureWarnsAndReturns ==
    (opt_call.op # "none" /\ ~opt_call.res.success) =>
        /\ opt_solves = 1
        /\ Len(opt_printed) = 1
        /\ opt_printed[1].message = opt_call.res.message
        /\ DOMAIN opt_ret = Assets
        /\ opt_ret = ReturnedOnSuccess(opt_call.op, opt_call.res.x)

\* C7 witness: a failed call under a cap of 1/4 per asset, where no iterate
\* satisfies sum(w) = 1, that printed the message and returned the iterate
\* cleaned up to weights that sum to 1.
C7_Witness ==
    /\ opt_call.op = "recommend_weights_for_max_vol"
    /\ ~opt_call.res.success
    /\ opt_call.bounds.max_weight = F(1, 4)
    /\ opt_printed = <<[text |-> "Optimization failed:", message |-> opt_call.res.message]>>
    /\ opt_ret # opt_call.res.x
    /\ SumOver(opt_ret, Assets) = One

---------------------------------------------------------------------------
(* The metrics of portfolio_utils.py.  A Series is a function from its    *)
(* index, a finite set of integers (positions or day numbers), to floats. *)

TRADING_DAYS == 252

First(ser) == ser[Min(DOMAIN ser)]
Last(ser)  == ser[Max(DOMAIN ser)]

\* Series.min() and Series.max(): NaN is skipped; NaN when nothing is left.
FMinOf(S) ==
    LET T == {x \in S : ~IsNaN(x)}
    IN  IF T = {} THEN NaN ELSE CHOOSE x \in T : \A y \in T : FLeq(x, y)

FMaxOf(S) ==
    LET T == {x \in S : ~IsNaN(x)}
    IN  IF T = {} THEN NaN ELSE CHOOSE x \in T : \A y \in T : FLeq(y, x)

\* Faulty variant, used to show the property below is sensitive to it: the maximum of the whole series, not the running one.
WholeMax(ser) == [i \in DOMAIN ser |-> FMaxOf({ser[j] : j \in DOMAIN ser})]

\* Series.cummax()
CumMax(ser) ==
    [i \in DOMAIN ser |-> FMaxOf({ser[j] : j \in {k \in DOMAIN ser : k <= i}})]

\* max_drawdown(values)
max_drawdown(vals) ==
    LET cum      == [i \in DOMAIN vals |-> FDiv(vals[i], First(vals))]
        roll_max == CumMax(cum)
        dd       == [i \in DOMAIN vals |-> FSub(FDiv(cum[i], roll_max[i]), One)]
    IN  FMinOf({dd[i] : i \in DOMAIN vals})

\* cagr_from_value_series(values).  The power is not a fraction, so the
\* result (last/first) ** (365.25/days) - 1 is kept as its base and its
\* number of days, which determine it; no days between the first and the
\* last date make 1 / years raise.
cagr_from_value_series(vals) ==
    LET days == Max(DOMAIN vals) - Min(DOMAIN vals)
    IN  IF days = 0 THEN [raise |-> "ZeroDivisionError"]
        ELSE [base |-> FDiv(Last(vals), First(vals)), days |-> days]

Mean(ser) == FDiv(SumOver(ser, DOMAIN ser), F(Cardinality(DOMAIN ser), 1))

\* Series.std() squared: the sample variance (ddof = 1), NaN for one point.
Variance(ser) ==
    LET m  == Mean(ser)
        sq == [i \in DOMAIN ser |-> FMul(FSub(ser[i], m), FSub(ser[i], m))]
    IN  FDiv(SumOver(sq, DOMAIN ser), F(Cardinality(DOMAIN ser) - 1, 1))

\* annualized_vol(returns) = returns.std() * sqrt(TRADING_DAYS), kept as its
\* square, which determines it.
annualized_vol(rets) == [sqrt_of |-> FMul(Variance(rets), F(TRADING_DAYS, 1))]

\* sharpe_ratio(returns, risk_free): (ann_ret - risk_free) / ann_vol, kept
\* as its numerator and the square of its denominator; NaN when ann_vol = 0.
sharpe_ratio(rets, risk_free) ==
    LET ann_ret == FMul(Mean(rets), F(TRADING_DAYS, 1))
        ann_vol == annualized_vol(rets)
    IN  IF ann_vol.sqrt_of = Zero \/ IsNaN(ann_vol.sqrt_of)
        THEN NaN    \* the else branch, or a division by NaN
        ELSE [num |-> FSub(ann_ret, risk_free), den |-> ann_vol]

\* (1 + portfolio_rets).cumprod()
RECURSIVE CumProdSeries(_, _)
CumProdSeries(ser, d) ==
    LET earlier == {e \in DOMAIN ser : e < d}
        here    == FAdd(One, ser[d])
    IN  IF earlier = {} THEN here
        ELSE FMul(CumProdSeries(ser, Max(earlier)), here)

\* portfolio_metrics_from_returns(portfolio_rets), start_value = 1.0 and
\* risk_free = 0.0 as generate_random_portfolios calls it.
portfolio_metrics_from_returns(portfolio_rets) ==
    LET vals == [d \in DOMAIN portfolio_rets |->
                    FMul(CumProdSeries(portfolio_rets, d), One)]
    IN  [CAGR        |-> cagr_from_value_series(vals),
         AnnualVol   |-> annualized_vol(portfolio_rets),
         Sharpe      |-> sharpe_ratio(portfolio_rets, Zero),
         MaxDrawdown |-> max_drawdown(vals)]

\* portfolio_return_series(returns, weights): returns[cols].dot(w)
portfolio_return_series(rets, weights) ==
    [d \in DOMAIN rets |->
        SumOver([c \in DOMAIN weights |-> FMul(rets[d][c], weights[c])],
                DOMAIN weights)]

---------------------------------------------------------------------------
(* max_drawdown on its own *)

\* The longest value series.
MaxLen == 4

\* The positive values a series is drawn from.
SeriesValues == {F(1, 2), F(9, 10), F(1, 1), F(11, 10), F(6, 5), F(2, 1)}

MdInit ==
    /\ md_values \in UNION {[1..n -> SeriesValues] : n \in 1..MaxLen}
    /\ md_result = NaN
    /\ md_pc = "call"

MdCall ==
    /\ md_pc = "call"
    /\ md_result' = max_drawdown(md_values)
    /\ md_pc' = "done"
    /\ UNCHANGED md_values
    /\ MdOnly

MdNext == MdCall

\* The minimum over t of value(t) / max(value(0..t)) - 1, written out.
RECURSIVE MaxUpTo(_, _)
MaxUpTo(vals, t) ==
    IF t = 1 THEN vals[1]
    ELSE LET m == MaxUpTo(vals, t - 1)
         IN  IF FLeq(m, vals[t]) THEN vals[t] ELSE m

RECURSIVE MinDrawdownUpTo(_, _)
MinDrawdownUpTo(vals, t) ==
    LET here == FSub(FDiv(vals[t], MaxUpTo(vals, t)), One)
    IN  IF t = 1 THEN here
        ELSE LET m == MinDrawdownUpTo(vals, t - 1)
             IN  IF FLeq(here, m) THEN here ELSE m

NonDecreasing(vals) ==
    \A i \in 1..(Len(vals) - 1) : FLeq(vals[i], vals[i + 1])

\* C9: the max_drawdown of a series of positive values is the minimum over
\* t of value(t) / max(value(0..t)) - 1; it is never above 0, it is 0 for a
\* non-decreasing series, and it is -1/4 for the series 1.0, 1.2, 0.9, 1.1.
C9_MaxDrawdown ==
    md_pc = "done" =>
        /\ md_result = MinDrawdownUpTo(md_values, Len(md_values))
        /\ FLeq(md_result, Zero)
        /\ NonDecreasing(md_values) => md_result = Zero
        /\ md_values = <<F(1, 1), F(6, 5), F(9, 10), F(11, 10)>> => md_result = F(-1, 4)

\* C9 witness: the drawdown of the series 1.0, 1.2, 0.9, 1.1 has been
\* computed and is -1/4.
C9_Witness ==
    /\ md_pc = "done"
    /\ md_values = <<F(1, 1), F(6, 5), F(9, 10), F(11, 10)>>
    /\ md_result = F(-1, 4)

---------------------------------------------------------------------------
(* generate_random_portfolios and numpy's process-wide generator *)

\* The states of a generator are 0..RngMod-1.
RngMod == 4

\* The most portfolios a call asks for.
MaxPortfolios == 2

\* The seeds of the callers; 42 is the default.
Seeds == {7, 42}

\* The columns of the returns matrix, in order.
AssetList == <<"A", "B">>

\* The returns matrices of the callers, by day number.
MCReturns ==
    { (1 :> ("A" :> F(1, 2) @@ "B" :> F(0, 1)) @@
       3 :> ("A" :> F(-1, 2) @@ "B" :> F(1, 2))),
      (1 :> ("A" :> F(0, 1) @@ "B" :> F(1, 2)) @@
       2 :> ("A" :> F(1, 2) @@ "B" :> F(-1, 2)) @@
       5 :> ("A" :> F(0, 1) @@ "B" :> F(1, 1))) }

\* The state np.random.seed(seed) puts a generator in.
Seeded(seed) == seed % RngMod

\* The state of a generator after one variate has been drawn from it.
Advance(state) == (5 * state + 3) % RngMod

\* The standard gamma(1) variate a generator in this state yields: positive.
Gamma(state) == F(1 + (state % 3), 1)

\* One Dirichlet(1, ..., 1) sample: a gamma variate per asset, in column
\* order, divided by their sum.
RECURSIVE DrawGammas(_, _)
DrawGammas(state, i) ==
    IF i > Len(AssetList) THEN [g |-> << >>, state |-> state]
    ELSE LET rest == DrawGammas(Advance(state), i + 1)
         IN  [g |-> (AssetList[i] :> Gamma(state)) @@ rest.g, state |-> rest.state]

\* np.random.dirichlet(np.ones(n), size=k) on a generator in this state:
\* the k samples in draw order and the state the generator is left in.
RECURSIVE dirichlet(_, _)
dirichlet(state, k) ==
    IF k = 0 THEN [samples |-> << >>, state |-> state]
    ELSE LET one  == DrawGammas(state, 1)
             rest == dirichlet(one.state, k - 1)
         IN  [samples |-> <<VDivS(one.g, VSum(one.g))>> \o rest.samples,
              state   |-> rest.state]

\* Faulty variant, used to show the property below is sensitive to it: the seeding forgotten, the draws start where the process-wide
\* generator stands.
Unseeded(seed, global) == global

\* np.random.seed(seed): the state the draws of a call start from.
SeededGlobal(seed, global) == Seeded(seed)

\* The rows of the returned frame for the samples, in draw order.
PortfolioRowsOf(rets, samples) ==
    [i \in 1..Len(samples) |->
        LET mets == portfolio_metrics_from_returns(
                        portfolio_return_series(rets, samples[i]))
        IN  [CAGR |-> mets.CAGR, AnnualVol |-> mets.AnnualVol,
             Sharpe |-> mets.Sharpe, MaxDrawdown |-> mets.MaxDrawdown,
             w |-> samples[i], Return |-> mets.CAGR]]

\* The frame for every returns matrix, number of portfolios and state the
\* draws start from, worked out once (@@ makes the table an explicit one).
FrameTable ==
    [a \in MCReturns \X (1..MaxPortfolios) \X (0..(RngMod - 1)) |->
        PortfolioRowsOf(a[1], dirichlet(a[3], a[2]).samples)] @@ << >>

\* The frame of a call whose draws start from the state s0, and the state
\* the draws leave the generator in.
Frame(rets, k, s0) == FrameTable[<<rets, k, s0>>]

StateAfter(k, s0) == dirichlet(s0, k).state

NoMcCall == [called |-> FALSE]

McInit ==
    /\ np_random \in 0..(RngMod - 1)
    /\ mc_event = "start"
    /\ mc_cur = NoMcCall
    /\ mc_ref = NoMcCall

\* One call.  mc_cur records it: its arguments, the state it found the
\* process-wide generator in and the frame it returned; mc_ref keeps the
\* arguments and the frame of an earlier call, any one of them.
generate_random_portfolios(rets, num_portfolios, seed) ==
    LET s0 == SeededGlobal(seed, np_random)
    IN  /\ np_random' = StateAfter(num_portfolios, s0)
        /\ mc_event' = "generate_random_portfolios"
        /\ mc_cur' = [called |-> TRUE, returns |-> rets,
                      num_portfolios |-> num_portfolios, seed |-> seed,
                      found |-> np_random,
                      df |-> Frame(rets, num_portfolios, s0)]
        /\ mc_ref' \in {mc_ref} \cup
                       (IF mc_cur.called
                        THEN {[called |-> TRUE, returns |-> mc_cur.returns,
                               num_portfolios |-> mc_cur.num_portfolios,
                               seed |-> mc_cur.seed, df |-> mc_cur.df]}
                        ELSE {})
        /\ McOnly

\* Another user of the process-wide generator seeds it.
OtherSeeds ==
    /\ \E k \in 0..(RngMod - 1) : np_random' = Seeded(k)
    /\ mc_event' = "seed"
    /\ UNCHANGED <<mc_cur, mc_ref>>
    /\ McOnly

\* Another user of the process-wide generator draws from it.
OtherDraws ==
    /\ np_random' = Advance(np_random)
    /\ mc_event' = "draw"
    /\ UNCHANGED <<mc_cur, mc_ref>>
    /\ McOnly

McNext ==
    \/ \E rets \in MCReturns : \E k \in 1..MaxPortfolios : \E seed \in Seeds :
          generate_random_portfolios(rets, k, seed)
    \/ OtherSeeds
    \/ OtherDraws

---------------------------------------------------------------------------
(* Claims about generate_random_portfolios *)

\* C5, as claimed: a call of generate_random_portfolios leaves the state
\* of the process-wide generator as it found it.
C5_GlobalGeneratorUntouched ==
    [][mc_event' = "generate_random_portfolios" => np_random' = np_random]_vars

SameArguments(c1, c2) ==
    /\ c1.returns = c2.returns
    /\ c1.num_portfolios = c2.num_portfolios
    /\ c1.seed = c2.seed

\* C6: two calls with the same (returns, num_portfolios, seed), whatever
\* state each found the process-wide generator in and whatever was called
\* in between, returned the same frame: the same samples in the same order
\* with the same CAGR, AnnualVol, Sharpe and MaxDrawdown.
C6_SameArgumentsSameFrame ==
    (mc_ref.called /\ mc_cur.called /\ SameArguments(mc_ref, mc_cur)) =>
        mc_cur.df = mc_ref.df

\* C6 witness: two calls with the same arguments for two portfolios, the
\* later of which found the process-wide generator in another state than
\* its seed gives, and which returned the same frame of two different
\* samples.
C6_Witness ==
    /\ mc_ref.called /\ mc_cur.called
    /\ SameArguments(mc_ref, mc_cur)
    /\ mc_cur.num_portfolios = 2
    /\ mc_cur.found # Seeded(mc_cur.seed)
    /\ mc_cur.df[1].w # mc_cur.df[2].w
    /\ mc_cur.df = mc_ref.df

---------------------------------------------------------------------------
(* Specifications: one per component, the others at rest *)

SimAtRest ==
    /\ index = {1}
    /\ freq = 1
    /\ target_weights = ("A" :> One)
    /\ returns = << >>
    /\ period = 0
    /\ values = TargetOf("A" :> One)
    /\ weights_df = (1 :> NaNRow)
    /\ turnovers = << >>

McAtRest ==
    /\ np_random = 0
    /\ mc_event = "start"
    /\ mc_cur = NoMcCall
    /\ mc_ref = NoMcCall

MdAtRest ==
    /\ md_values = <<One>>
    /\ md_result = NaN
    /\ md_pc = "rest"

OptAtRest ==
    /\ opt_call = NoCall
    /\ opt_ret = << >>
    /\ opt_printed = << >>
    /\ opt_solves = 0

InitSim == SimInit /\ OptAtRest /\ McAtRest /\ MdAtRest
InitOpt == OptInit /\ SimAtRest /\ McAtRest /\ MdAtRest
InitMC  == McInit /\ SimAtRest /\ OptAtRest /\ MdAtRest
InitMd  == MdInit /\ SimAtRest /\ OptAtRest /\ McAtRest

SpecSim == InitSim /\ [][SimNext]_vars
SpecOpt == InitOpt /\ [][OptNext]_vars
SpecMC  == InitMC /\ [][McNext]_vars
SpecMd  == InitMd /\ [][MdNext]_vars

===========================================================================
